---- MODULE Spec2Model ----
(***************************************************************************)
(* Broadcast synchronisation of lain-tv: the broadcast server              *)
(* (backend/ai-agent/README.md, "server.js" listing), the playback queue   *)
(* of the chat panel (src/lain-tv-frontend/src/App.jsx, AIChatPanel), and  *)
(* the chat-answering server (backend/websocket/server.js).                *)
(***************************************************************************)
EXTENDS Integers, Sequences, FiniteSets, TLC

\* ------------------------------------------------------------------ bounds
NumSockets == 2        \* WebSocket connections at one time
MaxNow == 3            \* the clock stops starting new generations here
MaxEffectRuns == 2     \* runs of the panel's connection effect (StrictMode: 2)
MaxGens == 2           \* concurrent generateAndBroadcast calls a caller may try
MaxMsgs == 3           \* live broadcasts the panel's sockets receive
MaxId == 3             \* broadcast ids among the messages the panel receives
MaxChats == 1          \* chat messages the viewers send
MaxWrapped == 2        \* live broadcasts received among which some are json-wrapped
MaxLines == 2          \* live broadcasts with a line to speak that the panel receives
CapSlack == 1          \* how far below its cap the set of processed ids starts

Sockets == 1..NumSockets

\* ------------------------------------------------------- program constants
ProcessedCap == 100    \* processedMessages.current.size > 100
ProcessedKeep == 50    \* arr.slice(-50)

VARIABLES
  \* ---- server (backend/ai-agent)
  clients,            \* the Set of registered sockets, in insertion order
  readyState,         \* server-side readyState of each socket
  currentMessage,     \* the current broadcast, or Null
  isBroadcasting,     \* the generating flag
  lastBroadcastTime,  \* Date.now() of the last fan-out, 0 at start
  now,                \* Date.now()
  timer,              \* TRUE iff a setTimeout of the broadcast loop is pending
  gens,               \* the generateAndBroadcast calls that are suspended
  sent,               \* per socket, the messages the server has sent on it
  skipped,            \* TRUE once a call took the 'Already broadcasting' branch
  userMessages,       \* how many entries the redis list 'user_messages' holds
  lastStatus,         \* the answer to the last GET /current
  \* ---- chat server (backend/websocket), which shares clients, readyState, sent
  handlers,           \* its ws.on('message') calls for chat messages, in order
  \* ---- client (AIChatPanel and the sockets' client ends)
  cws,                \* client-side readyState of each socket
  panelWs,            \* the sockets created by the panel's effect
  wsRef,              \* wsRef.current (0 = null)
  effectWs,           \* the ws its pending cleanup closes over (0 = none)
  mounted,            \* TRUE iff the connection effect has run and not been cleaned up
  effectRuns,         \* how often the connection effect has run
  rcvd,               \* per socket, how many messages onmessage has handled
  lastData,           \* the data of the message onmessage handled last
  messages,           \* the displayed messages
  processedMessages,  \* processedMessages.current, in insertion order
  messageQueue,       \* messageQueue.current
  isProcessingQueue,  \* isProcessingQueue.current
  wpc,                \* where the worker (processMessageQueue) is suspended
  playing,            \* the Audio elements that are playing
  isSpeaking,         \* the isSpeaking state
  failures,           \* how many dequeued lines synthesizeSpeech failed to play
  enqLog,             \* every line pushed to messageQueue, in order
  deqLog              \* every line shifted from messageQueue, in order

reqVars == <<userMessages, lastStatus, handlers>>
serverVars == <<clients, readyState, currentMessage, isBroadcasting,
                lastBroadcastTime, now, timer, gens, sent, skipped,
                reqVars>>
connVars == <<cws, panelWs, wsRef, effectWs, mounted, effectRuns>>
panelVars == <<rcvd, lastData, messages, processedMessages, messageQueue,
               isProcessingQueue, wpc, playing, isSpeaking, failures,
               enqLog, deqLog>>
vars == <<serverVars, connVars, panelVars>>

\* ----------------------------------------------------------------- values
\* A text is [k, n]: k = "line" is a non-blank line (n tells lines apart),
\* "blank" a whitespace-only string, "undef" a missing field (undefined).
Line(n) == [k |-> "line", n |-> n]
Blank == [k |-> "blank", n |-> 0]
Undef == [k |-> "undef", n |-> 0]
\* the empty string
Empty == [k |-> "empty", n |-> 0]
\* Texts that contain a ```json fence:
\*   "json"       a fenced JSON object whose text field is the line n
\*   "jsonblank"  a fenced JSON object whose text field is whitespace only
\*   "jsonnotext" a fenced JSON object without a text field
\*   "badjson"    a fenced {...} that JSON.parse rejects
\*   "fence"      a fence with no {...} in it
\*   "raw"        what is left of a "badjson" text once its fences are stripped
WrappedKinds == {"json", "jsonblank", "jsonnotext", "badjson", "fence"}
Wrapped(kind, n) == [k |-> kind, n |-> n]

\* JS null for currentMessage
Null == [type |-> "null", broadcast_id |-> 0, message |-> Undef]

\* What the inference service can answer: HTTP 200 with a JSON object that
\* holds a response line, an HTTP error status with a JSON object that holds no
\* response field (FastAPI's {"detail": ...}), or an HTTP error status with a
\* body that response.json() rejects (or the JSON value null, whose .response
\* throws).
Responses ==
  {[ok |-> TRUE, body |-> "line"],
   [ok |-> FALSE, body |-> "noresponse"],
   [ok |-> FALSE, body |-> "nonjson"]}
NoResp == [ok |-> FALSE, body |-> "none"]

\* no GET /current has been answered yet
NoStatus == [current_message |-> Null, is_broadcasting |-> FALSE,
             last_broadcast_time |-> 0, clients |-> -1]

RemoveAt(s, i) == SubSeq(s, 1, i - 1) \o SubSeq(s, i + 1, Len(s))
SeqToSet(s) == {s[i] : i \in 1..Len(s)}

Init ==
  /\ clients = <<>>
  /\ readyState = [s \in Sockets |-> "NONE"]
  /\ currentMessage = Null
  /\ isBroadcasting = FALSE
  /\ lastBroadcastTime = 0
  /\ now = 1
  /\ timer = TRUE
  /\ gens = <<>>
  /\ sent = [s \in Sockets |-> <<>>]
  /\ skipped = FALSE
  /\ userMessages = 0
  /\ lastStatus = NoStatus
  /\ handlers = <<>>
  /\ cws = [s \in Sockets |-> "NONE"]
  /\ panelWs = {}
  /\ wsRef = 0
  /\ effectWs = 0
  /\ mounted = FALSE
  /\ effectRuns = 0
  /\ rcvd = [s \in Sockets |-> 0]
  /\ lastData = Null
  /\ messages = <<>>
  /\ processedMessages = <<>>
  /\ messageQueue = <<>>
  /\ isProcessingQueue = FALSE
  /\ wpc = "idle"
  /\ playing = {}
  /\ isSpeaking = FALSE
  /\ failures = 0
  /\ enqLog = <<>>
  /\ deqLog = <<>>

\* ------------------------------------------------------------------ server
\* broadcast(data): send to every registered socket that is OPEN, in the
\* Set's iteration (insertion) order; the result is the new value of sent.
RECURSIVE broadcastFrom(_, _, _)
broadcastFrom(i, data, snt) ==
  IF i > Len(clients) THEN snt
  ELSE IF readyState[clients[i]] = "OPEN"
       THEN broadcastFrom(i + 1, data,
                          [snt EXCEPT ![clients[i]] = Append(@, data)])
       ELSE broadcastFrom(i + 1, data, snt)

\* broadcast as it would be if meeting a socket that is not OPEN ended the loop
RECURSIVE broadcastAbortFrom(_, _, _)
broadcastAbortFrom(i, data, snt) ==
  IF i > Len(clients) \/ readyState[clients[i]] # "OPEN" THEN snt
  ELSE broadcastAbortFrom(i + 1, data,
                          [snt EXCEPT ![clients[i]] = Append(@, data)])

broadcast_abort(data) == broadcastAbortFrom(1, data, sent)

\* broadcast as it would be if a message were put in front of what was
\* already written to a socket
RECURSIVE broadcastUnshiftFrom(_, _, _)
broadcastUnshiftFrom(i, data, snt) ==
  IF i > Len(clients) THEN snt
  ELSE IF readyState[clients[i]] = "OPEN"
       THEN broadcastUnshiftFrom(i + 1, data,
                                 [snt EXCEPT ![clients[i]] = <<data>> \o @])
       ELSE broadcastUnshiftFrom(i + 1, data, snt)

broadcast_unshift(data) == broadcastUnshiftFrom(1, data, sent)

\* broadcast as it would be without its readyState check
RECURSIVE broadcastAllFrom(_, _, _)
broadcastAllFrom(i, data, snt) ==
  IF i > Len(clients) THEN snt
  ELSE broadcastAllFrom(i + 1, data,
                        [snt EXCEPT ![clients[i]] = Append(@, data)])

broadcast_noCheck(data) == broadcastAllFrom(1, data, sent)

broadcast(data) == broadcastFrom(1, data, sent)

\* The end of a generateAndBroadcast call: the finally block, and for the call
\* made by the loop's timer callback the scheduleNext() that follows its await.
finish(i) ==
  /\ isBroadcasting' = FALSE
  /\ gens' = RemoveAt(gens, i)
  /\ timer' = IF gens[i].loop THEN TRUE ELSE timer

\* catch without the finally block's release of the flag
catchFinally_noRelease(i) ==
  /\ UNCHANGED isBroadcasting
  /\ gens' = RemoveAt(gens, i)
  /\ timer' = IF gens[i].loop THEN TRUE ELSE timer

\* an error that is not caught: the call rejects, and the timer callback that
\* awaits it never reaches scheduleNext()
catchFinally_noNext(i) ==
  /\ isBroadcasting' = FALSE
  /\ gens' = RemoveAt(gens, i)
  /\ UNCHANGED timer

\* An await of generateAndBroadcast rejects: the catch block, then the finally
\* block, then the caller goes on as after a normal return.
catchFinally(i) == finish(i)

\* generateAndBroadcast without its isBroadcasting check
generateAndBroadcast_noGuard(loop) ==
  /\ isBroadcasting' = TRUE
  /\ gens' = Append(gens, [pc |-> "fetch", loop |-> loop, resp |-> NoResp])
  /\ timer' = IF loop THEN FALSE ELSE timer
  /\ UNCHANGED skipped

\* The start of a generateAndBroadcast call up to its first await.
\* A call made by the loop's timer callback (loop = TRUE) consumes the timer;
\* when the call returns at once, the callback goes on to scheduleNext().
generateAndBroadcast(loop) ==
  IF isBroadcasting
  THEN /\ skipped' = TRUE
       /\ UNCHANGED <<isBroadcasting, gens, timer>>
  ELSE /\ isBroadcasting' = TRUE
       /\ gens' = Append(gens, [pc |-> "fetch", loop |-> loop,
                                resp |-> NoResp])
       /\ timer' = IF loop THEN FALSE ELSE timer
       /\ UNCHANGED skipped

\* the loop as it would be with a periodic timer (setInterval) that stays
\* armed while a generation runs
TimerFire_interval ==
  /\ timer
  /\ now < MaxNow
  /\ IF isBroadcasting
     THEN /\ skipped' = TRUE
          /\ UNCHANGED <<isBroadcasting, gens, timer>>
     ELSE /\ isBroadcasting' = TRUE
          /\ gens' = Append(gens, [pc |-> "fetch", loop |-> TRUE,
                                   resp |-> NoResp])
          /\ UNCHANGED <<timer, skipped>>
  /\ UNCHANGED <<clients, readyState, currentMessage, lastBroadcastTime, now,
                 sent, reqVars, connVars, panelVars>>

\* The callback of the loop's setTimeout (the first one, or scheduleNext's).
TimerFire ==
  /\ timer
  /\ now < MaxNow
  /\ generateAndBroadcast(TRUE)
  /\ UNCHANGED <<clients, readyState, currentMessage, lastBroadcastTime, now,
                 sent, reqVars, connVars, panelVars>>

\* generateAndBroadcast called at a moment of the caller's choosing.
DirectCall ==
  /\ Len(gens) < MaxGens
  /\ now < MaxNow
  /\ generateAndBroadcast(FALSE)
  /\ UNCHANGED <<clients, readyState, currentMessage, lastBroadcastTime, now,
                 sent, reqVars, connVars, panelVars>>

\* the fetch as it would be if the clock did not advance during it
FetchSettle_instant(i) ==
  /\ gens[i].pc = "fetch"
  /\ now' = now
  /\ \/ /\ catchFinally(i)
        /\ UNCHANGED skipped
     \/ /\ \E r \in Responses :
             gens' = [gens EXCEPT ![i].pc = "json", ![i].resp = r]
        /\ UNCHANGED <<isBroadcasting, timer, skipped>>
  /\ UNCHANGED <<clients, readyState, currentMessage, lastBroadcastTime,
                 sent, reqVars, connVars, panelVars>>

\* await fetch(...) settles: it rejects (network error), or resolves with the
\* service's response whatever its HTTP status. The round trip takes time:
\* Date.now() has advanced.
FetchSettle(i) ==
  /\ gens[i].pc = "fetch"
  /\ now' = now + 1
  /\ \/ /\ catchFinally(i)                    \* rejected
        /\ UNCHANGED skipped
     \/ /\ \E r \in Responses :
             gens' = [gens EXCEPT ![i].pc = "json", ![i].resp = r]
        /\ UNCHANGED <<isBroadcasting, timer, skipped>>
  /\ UNCHANGED <<clients, readyState, currentMessage, lastBroadcastTime,
                 sent, reqVars, connVars, panelVars>>

\* lainResponse.response for a parsed body
responseOf(body) == IF body = "line" THEN Line(now) ELSE Undef

\* await response.json() settles: it rejects when the body is not JSON;
\* otherwise the message becomes current, is fanned out, and lPush is started.
JsonSettle(i) ==
  /\ gens[i].pc = "json"
  /\ IF gens[i].resp.body = "nonjson"
     THEN /\ catchFinally(i)
          /\ UNCHANGED <<currentMessage, sent, lastBroadcastTime>>
     ELSE /\ currentMessage' = [type |-> "lain_broadcast",
                                broadcast_id |-> now,
                                message |-> responseOf(gens[i].resp.body)]
          /\ sent' = broadcast(currentMessage')
          /\ lastBroadcastTime' = now
          /\ gens' = [gens EXCEPT ![i].pc = "lpush"]
          /\ UNCHANGED <<isBroadcasting, timer>>
  /\ UNCHANGED <<clients, readyState, now, skipped,
                 reqVars, connVars, panelVars>>

\* await redisClient.lPush('broadcast_history', ...) settles. Redis is an
\* external store: only whether its calls resolve or reject is modelled.
LPushSettle(i) ==
  /\ gens[i].pc = "lpush"
  /\ \/ /\ gens' = [gens EXCEPT ![i].pc = "ltrim"]
        /\ UNCHANGED <<isBroadcasting, timer>>
     \/ catchFinally(i)                        \* rejected
  /\ UNCHANGED <<clients, readyState, currentMessage, lastBroadcastTime, now,
                 sent, skipped, reqVars, connVars, panelVars>>

\* await redisClient.lTrim('broadcast_history', 0, 99) settles
LTrimSettle(i) ==
  /\ gens[i].pc = "ltrim"
  /\ \/ finish(i)
     \/ catchFinally(i)                        \* rejected
  /\ UNCHANGED <<clients, readyState, currentMessage, lastBroadcastTime, now,
                 sent, skipped, reqVars, connVars, panelVars>>

\* ------------------------------------------------------------- connections
\* the connection handler as it would be if it sent the sync message with
\* broadcast(), to every open socket
Connection_syncToAll(s) ==
  /\ readyState[s] = "NONE"
  /\ \A t \in Sockets : readyState[t] = "NONE" => s <= t
  /\ clients' = Append(clients, s)
  /\ readyState' = [readyState EXCEPT ![s] = "OPEN"]
  /\ sent' = [t \in Sockets |->
               IF t = s \/ (t \in SeqToSet(clients) /\ readyState[t] = "OPEN")
               THEN Append(sent[t], [type |-> "sync",
                                     current_message |-> currentMessage,
                                     is_broadcasting |-> isBroadcasting,
                                     last_broadcast_time |-> lastBroadcastTime])
               ELSE sent[t]]
  /\ UNCHANGED <<currentMessage, isBroadcasting, lastBroadcastTime, now, timer,
                 gens, skipped, reqVars, connVars, panelVars>>

\* the connection handler as it would be if its sync message always said
\* that no generation is in progress
Connection_syncIdle(s) ==
  /\ readyState[s] = "NONE"
  /\ \A t \in Sockets : readyState[t] = "NONE" => s <= t
  /\ clients' = Append(clients, s)
  /\ readyState' = [readyState EXCEPT ![s] = "OPEN"]
  /\ sent' = [sent EXCEPT ![s] =
                Append(@, [type |-> "sync",
                           current_message |-> currentMessage,
                           is_broadcasting |-> FALSE,
                           last_broadcast_time |-> lastBroadcastTime])]
  /\ UNCHANGED <<currentMessage, isBroadcasting, lastBroadcastTime, now, timer,
                 gens, skipped, reqVars, connVars, panelVars>>

\* wss.on('connection'): register the socket and send it the sync message.
\* the connection handler as it would be if it replayed the current message
\* as a live broadcast after the sync message
Connection_replays(s) ==
  /\ readyState[s] = "NONE"
  /\ \A t \in Sockets : readyState[t] = "NONE" => s <= t
  /\ clients' = Append(clients, s)
  /\ readyState' = [readyState EXCEPT ![s] = "OPEN"]
  /\ sent' = [sent EXCEPT ![s] =
                IF currentMessage = Null
                THEN Append(@, [type |-> "sync",
                                current_message |-> currentMessage,
                                is_broadcasting |-> isBroadcasting,
                                last_broadcast_time |-> lastBroadcastTime])
                ELSE Append(Append(@, [type |-> "sync",
                                current_message |-> currentMessage,
                                is_broadcasting |-> isBroadcasting,
                                last_broadcast_time |-> lastBroadcastTime]),
                            currentMessage)]
  /\ UNCHANGED <<currentMessage, isBroadcasting, lastBroadcastTime, now, timer,
                 gens, skipped, reqVars, connVars, panelVars>>

Connection(s) ==
  /\ readyState[s] = "NONE"
  /\ \A t \in Sockets : readyState[t] = "NONE" => s <= t
  /\ clients' = Append(clients, s)
  /\ readyState' = [readyState EXCEPT ![s] = "OPEN"]
  /\ sent' = [sent EXCEPT ![s] =
                Append(@, [type |-> "sync",
                           current_message |-> currentMessage,
                           is_broadcasting |-> isBroadcasting,
                           last_broadcast_time |-> lastBroadcastTime])]
  /\ UNCHANGED <<currentMessage, isBroadcasting, lastBroadcastTime, now, timer,
                 gens, skipped, reqVars, connVars, panelVars>>

\* the chat handler as it would be if a chat message started a generation
ChatMessage_generates(s) ==
  /\ s \in SeqToSet(clients)
  /\ readyState[s] = "OPEN"
  /\ userMessages < MaxChats
  /\ userMessages' = userMessages + 1
  /\ generateAndBroadcast(FALSE)
  /\ UNCHANGED <<clients, readyState, currentMessage, lastBroadcastTime, now,
                 sent, lastStatus, handlers, connVars, panelVars>>

\* ws.on('message') with a message of type 'chat': the message is pushed to
\* the redis list 'user_messages' and nothing else is done. (A message of
\* another type, one that is not JSON, and an lPush that rejects change
\* nothing at all.)
ChatMessage(s) ==
  /\ s \in SeqToSet(clients)
  /\ readyState[s] = "OPEN"
  /\ userMessages < MaxChats
  /\ userMessages' = userMessages + 1
  /\ UNCHANGED <<clients, readyState, currentMessage, isBroadcasting,
                 lastBroadcastTime, now, timer, gens, sent, skipped,
                 lastStatus, handlers, connVars, panelVars>>

\* the body of the answer to GET /current in the present state
currentStatus ==
  [current_message |-> currentMessage,
   is_broadcasting |-> isBroadcasting,
   last_broadcast_time |-> lastBroadcastTime,
   clients |-> Len(clients)]

\* app.get('/current'): the answer is computed from the server's state at the
\* moment the request is handled.
StatusQuery ==
  /\ lastStatus' = currentStatus
  /\ UNCHANGED <<clients, readyState, currentMessage, isBroadcasting,
                 lastBroadcastTime, now, timer, gens, sent, skipped,
                 userMessages, handlers, connVars, panelVars>>

\* The server end learns that the connection is gone (close frame or socket
\* end); the 'close' event has not been emitted yet.
ServerClosing(s) ==
  /\ readyState[s] = "OPEN"
  /\ readyState' = [readyState EXCEPT ![s] = "CLOSING"]
  /\ UNCHANGED <<clients, currentMessage, isBroadcasting, lastBroadcastTime,
                 now, timer, gens, sent, skipped,
                 reqVars, connVars, panelVars>>

\* the close handler as it would be if it left the socket in the Set
Close_keepsRegistered(s) ==
  /\ readyState[s] = "CLOSING"
  /\ readyState' = [readyState EXCEPT ![s] = "NONE"]
  /\ UNCHANGED clients
  /\ sent' = [sent EXCEPT ![s] = <<>>]
  /\ UNCHANGED <<currentMessage, isBroadcasting, lastBroadcastTime,
                 now, timer, gens, skipped,
                 reqVars, connVars, panelVars>>

\* ws.on('close'): unregister the socket. The socket object is gone then, and
\* with it the record of what was written to it.
Close(s) ==
  /\ readyState[s] = "CLOSING"
  /\ readyState' = [readyState EXCEPT ![s] = "NONE"]
  /\ clients' = SelectSeq(clients, LAMBDA c : c # s)
  /\ sent' = [sent EXCEPT ![s] = <<>>]
  /\ UNCHANGED <<currentMessage, isBroadcasting, lastBroadcastTime,
                 now, timer, gens, skipped,
                 reqVars, connVars, panelVars>>

\* ------------------------------------------ chat server (backend/websocket)
\* wss.on('connection') of the chat server: register the socket and send it
\* the welcome message.
WsConnection(s) ==
  /\ readyState[s] = "NONE"
  /\ \A t \in Sockets : readyState[t] = "NONE" => s <= t
  /\ clients' = Append(clients, s)
  /\ readyState' = [readyState EXCEPT ![s] = "OPEN"]
  /\ sent' = [sent EXCEPT ![s] = Append(@, [type |-> "welcome"])]
  /\ UNCHANGED <<currentMessage, isBroadcasting, lastBroadcastTime, now, timer,
                 gens, skipped, reqVars, connVars, panelVars>>

\* ws.on('message') with a message of type 'chat', up to its await fetch(...).
\* A handler is [from, pc, resp, to]: the socket it belongs to, where it is
\* suspended, the service's response, and the sockets its lain_response was
\* sent to in the step before. A handler that has returned holds nothing any
\* more.
WsChat(s) ==
  /\ s \in SeqToSet(clients)
  /\ readyState[s] = "OPEN"
  /\ Len(handlers) < MaxChats
  /\ handlers' = Append(handlers, [from |-> s, pc |-> "fetch", resp |-> NoResp,
                                   to |-> {}])
  /\ UNCHANGED <<clients, readyState, currentMessage, isBroadcasting,
                 lastBroadcastTime, now, timer, gens, sent, skipped,
                 userMessages, lastStatus, connVars, panelVars>>

Returned(pc) ==
  [from |-> 0, pc |-> pc, resp |-> NoResp, to |-> {}]

\* The catch block of the handler: an error message is sent on the handler's
\* own socket (ws.send on a socket that is not OPEN sends nothing).
wsCatch(k) ==
  /\ handlers' = [handlers EXCEPT ![k] = Returned("failed")]
  /\ sent' = IF readyState[handlers[k].from] = "OPEN"
             THEN [sent EXCEPT ![handlers[k].from] =
                                  Append(@, [type |-> "error"])]
             ELSE sent

\* await fetch(`${lainllmUrl}/generate`) of handler k settles
WsFetchSettle(k) ==
  /\ handlers[k].pc = "fetch"
  /\ \/ wsCatch(k)                             \* rejected
     \/ /\ \E r \in Responses :
             handlers' = [handlers EXCEPT ![k].pc = "json", ![k].resp = r]
        /\ UNCHANGED sent
  /\ UNCHANGED <<clients, readyState, currentMessage, isBroadcasting,
                 lastBroadcastTime, now, timer, gens, skipped,
                 userMessages, lastStatus, connVars, panelVars>>

\* the handler as it would be if it sent the response to the other clients
\* only
WsJsonSettle_othersOnly(k) ==
  /\ handlers[k].pc = "json"
  /\ IF handlers[k].resp.body = "nonjson"
     THEN wsCatch(k)
     ELSE /\ sent' = [c \in Sockets |->
                       IF /\ c \in SeqToSet(clients)
                          /\ readyState[c] = "OPEN"
                          /\ c # handlers[k].from
                       THEN Append(sent[c],
                              [type |-> "lain_response",
                               message |-> responseOf(handlers[k].resp.body)])
                       ELSE sent[c]]
          /\ handlers' = [handlers EXCEPT
               ![k].pc = "lpush",
               ![k].resp = NoResp,
               ![k].to = {c \in SeqToSet(clients) :
                            readyState[c] = "OPEN" /\ c # handlers[k].from}]
  /\ UNCHANGED <<clients, readyState, currentMessage, isBroadcasting,
                 lastBroadcastTime, now, timer, gens, skipped,
                 userMessages, lastStatus, connVars, panelVars>>

\* await response.json() of handler k settles: it rejects when the body is not
\* JSON; otherwise the lain_response is sent to every registered socket that
\* is OPEN, and lPush is started.
WsJsonSettle(k) ==
  /\ handlers[k].pc = "json"
  /\ IF handlers[k].resp.body = "nonjson"
     THEN wsCatch(k)
     ELSE /\ sent' = broadcastFrom(1,
                       [type |-> "lain_response",
                        message |-> responseOf(handlers[k].resp.body)],
                       sent)
          /\ handlers' = [handlers EXCEPT
               ![k].pc = "lpush",
               ![k].resp = NoResp,
               ![k].to = {c \in SeqToSet(clients) : readyState[c] = "OPEN"}]
  /\ UNCHANGED <<clients, readyState, currentMessage, isBroadcasting,
                 lastBroadcastTime, now, timer, gens, skipped,
                 userMessages, lastStatus, connVars, panelVars>>

\* await redisClient.lPush('chat_history', ...) of handler k settles
WsLPushSettle(k) ==
  /\ handlers[k].pc = "lpush"
  /\ \/ /\ handlers' = [handlers EXCEPT ![k].pc = "ltrim", ![k].to = {}]
        /\ UNCHANGED sent
     \/ wsCatch(k)                             \* rejected
  /\ UNCHANGED <<clients, readyState, currentMessage, isBroadcasting,
                 lastBroadcastTime, now, timer, gens, skipped,
                 userMessages, lastStatus, connVars, panelVars>>

\* await redisClient.lTrim('chat_history', 0, 99) of handler k settles
WsLTrimSettle(k) ==
  /\ handlers[k].pc = "ltrim"
  /\ \/ /\ handlers' = [handlers EXCEPT ![k] = Returned("done")]
        /\ UNCHANGED sent
     \/ wsCatch(k)                             \* rejected
  /\ UNCHANGED <<clients, readyState, currentMessage, isBroadcasting,
                 lastBroadcastTime, now, timer, gens, skipped,
                 userMessages, lastStatus, connVars, panelVars>>

\* ws.on('close') of the chat server: unregister the socket. The handlers of
\* the socket that are still suspended keep their reference to it, so here a
\* closed socket stays CLOSED and a client that comes back gets a new one.
WsClose(s) ==
  /\ readyState[s] = "CLOSING"
  /\ readyState' = [readyState EXCEPT ![s] = "CLOSED"]
  /\ clients' = SelectSeq(clients, LAMBDA c : c # s)
  /\ sent' = [sent EXCEPT ![s] = <<>>]
  /\ UNCHANGED <<currentMessage, isBroadcasting, lastBroadcastTime,
                 now, timer, gens, skipped, reqVars, connVars, panelVars>>

\* ------------------------------------------------------ client connections
\* new WebSocket(url) takes the next unused connection
NewSocket == CHOOSE s \in Sockets : cws[s] = "NONE" /\ \A t \in Sockets : cws[t] = "NONE" => s <= t

\* The panel's connection effect runs (mount, or StrictMode's second run).
EffectRun ==
  /\ ~mounted
  /\ effectRuns < MaxEffectRuns
  /\ mounted' = TRUE
  /\ effectRuns' = effectRuns + 1
  /\ IF wsRef # 0 /\ cws[wsRef] = "OPEN"
     THEN UNCHANGED <<cws, panelWs, wsRef, effectWs>>   \* return: no cleanup
     ELSE /\ \E s \in Sockets : cws[s] = "NONE"
          /\ cws' = [cws EXCEPT ![NewSocket] = "CONNECTING"]
          /\ panelWs' = panelWs \cup {NewSocket}
          /\ wsRef' = NewSocket
          /\ effectWs' = NewSocket
  /\ UNCHANGED <<serverVars, panelVars>>

\* The effect's cleanup: closes its own ws, if that is OPEN.
EffectCleanup ==
  /\ mounted
  /\ mounted' = FALSE
  /\ effectWs' = 0
  /\ cws' = IF effectWs # 0 /\ cws[effectWs] = "OPEN"
            THEN [cws EXCEPT ![effectWs] = "CLOSED"]
            ELSE cws
  /\ UNCHANGED <<panelWs, wsRef, effectRuns, serverVars, panelVars>>

\* ws.onopen: the handshake has completed
ClientOpen(s) ==
  /\ cws[s] = "CONNECTING"
  /\ cws' = [cws EXCEPT ![s] = "OPEN"]
  /\ UNCHANGED <<panelWs, wsRef, effectWs, mounted, effectRuns,
                 serverVars, panelVars>>

\* The transport of an open connection breaks, or its viewer leaves.
Drop(s) ==
  /\ cws[s] = "OPEN"
  /\ cws' = [cws EXCEPT ![s] = "CLOSED"]
  /\ UNCHANGED <<panelWs, wsRef, effectWs, mounted, effectRuns,
                 serverVars, panelVars>>

\* ------------------------------------------------------------ AIChatPanel
\* pop() in place of shift()
shift_pop(q) == [item |-> q[Len(q)], rest |-> SubSeq(q, 1, Len(q) - 1)]

\* messageQueue.current.shift()
shift(q) == [item |-> Head(q), rest |-> Tail(q)]

\* no duplicate check
hasProcessed_never(messageId) == FALSE

\* processedMessages.current.has(messageId)
hasProcessed(messageId) == messageId \in SeqToSet(processedMessages)

\* add without the clean-up
addProcessed_noCleanup(messageId) == Append(processedMessages, messageId)

\* processedMessages.current.add(messageId) and the clean-up that follows
addProcessed(messageId) ==
  LET added == Append(processedMessages, messageId)
  IN IF Len(added) > ProcessedCap
     THEN SubSeq(added, Len(added) - ProcessedKeep + 1, Len(added))
     ELSE added

\* The text that is displayed and spoken: falsy and whitespace-only texts
\* are skipped.
isEmptyText(text) == text.k \in {"undef", "blank", "empty"}

\* the handler as it would be if it did not look into json code blocks
responseText_noUnwrap(text) == text

\* responseText after the handling of ```json code blocks: a text without a
\* fence, or with a fence but no {...} in it, is left as it is; a fenced
\* object that parses gives its text field or ''; one that does not parse
\* gives the text with its fences stripped, which still holds the braces.
responseText(text) ==
  CASE text.k = "json" -> Line(text.n)
    [] text.k = "jsonblank" -> Blank
    [] text.k = "jsonnotext" -> Empty
    [] text.k = "badjson" -> [k |-> "raw", n |-> text.n]
    [] OTHER -> text

\* processMessageQueue without its isProcessingQueue check: a call made while
\* a worker is running starts a loop of its own
processMessageQueue_noGuard(q) ==
  IF q = <<>>
  THEN /\ messageQueue' = q
       /\ UNCHANGED <<isProcessingQueue, wpc, isSpeaking, deqLog>>
  ELSE /\ isProcessingQueue' = TRUE
       /\ messageQueue' = shift(q).rest
       /\ deqLog' = Append(deqLog, shift(q).item)
       /\ isSpeaking' = TRUE
       /\ wpc' = "fetch"

\* processMessageQueue() called with queue q: returns at once when a worker
\* is running or q is empty; otherwise takes the flag, shifts the head and
\* runs synthesizeSpeech up to its fetch.
processMessageQueue(q) ==
  IF isProcessingQueue \/ q = <<>>
  THEN /\ messageQueue' = q
       /\ UNCHANGED <<isProcessingQueue, wpc, isSpeaking, deqLog>>
  ELSE /\ isProcessingQueue' = TRUE
       /\ messageQueue' = shift(q).rest
       /\ deqLog' = Append(deqLog, shift(q).item)
       /\ isSpeaking' = TRUE
       /\ wpc' = "fetch"

\* the sync handler as it would be if it queued the synced line like a live one
onSync_speaks(data) ==
  IF data.current_message = Null
  THEN UNCHANGED <<messages, processedMessages, messageQueue,
                   isProcessingQueue, wpc, playing, isSpeaking, enqLog, deqLog>>
  ELSE /\ messages' = Append(messages,
                         [kind |-> "sync",
                          message |-> data.current_message.message,
                          broadcast_id |-> data.current_message.broadcast_id])
       /\ enqLog' = Append(enqLog, data.current_message.message)
       /\ processMessageQueue(Append(messageQueue, data.current_message.message))
       /\ UNCHANGED <<processedMessages, playing>>

\* onmessage, data.type === 'sync'
onSync(data) ==
  /\ messages' = IF data.current_message # Null
                 THEN Append(messages,
                        [kind |-> "sync",
                         message |-> data.current_message.message,
                         broadcast_id |-> data.current_message.broadcast_id])
                 ELSE messages
  /\ UNCHANGED <<processedMessages, messageQueue, isProcessingQueue, wpc,
                 playing, isSpeaking, enqLog, deqLog>>

\* onmessage, data.type === 'lain_broadcast'. broadcast_id is the server's
\* Date.now(), never 0, so messageId is always data.broadcast_id.
onBroadcast(data) ==
  IF hasProcessed(data.broadcast_id)
  THEN UNCHANGED <<messages, processedMessages, messageQueue,
                   isProcessingQueue, wpc, playing, isSpeaking, enqLog, deqLog>>
  ELSE /\ processedMessages' = addProcessed(data.broadcast_id)
       /\ IF isEmptyText(responseText(data.message))
          THEN UNCHANGED <<messages, messageQueue, isProcessingQueue, wpc,
                           playing, isSpeaking, enqLog, deqLog>>
          ELSE /\ messages' = Append(messages,
                                [kind |-> "live",
                                 message |-> responseText(data.message),
                                 broadcast_id |-> data.broadcast_id])
               /\ enqLog' = Append(enqLog, responseText(data.message))
               /\ processMessageQueue(Append(messageQueue,
                                             responseText(data.message)))
               /\ UNCHANGED playing

\* What a socket of the panel can receive from the server: first the sync
\* message of its connection, then live broadcasts.
SyncInputs ==
  {[type |-> "sync", current_message |-> m,
    is_broadcasting |-> FALSE, last_broadcast_time |-> m.broadcast_id] :
     m \in {Null} \cup {[type |-> "lain_broadcast", broadcast_id |-> id,
                         message |-> Line(id)] : id \in 1..MaxId}}
BroadcastInputs ==
  {[type |-> "lain_broadcast", broadcast_id |-> id, message |-> t] :
     id \in 1..MaxId, t \in {Blank, Undef}}
  \cup {[type |-> "lain_broadcast", broadcast_id |-> id, message |-> Line(id)] :
     id \in 1..MaxId}

\* Live broadcasts whose text holds a ```json fence, and ones with an empty
\* string as text
WrappedInputs ==
  {[type |-> "lain_broadcast", broadcast_id |-> id, message |-> Empty] :
     id \in 1..MaxId}
  \cup UNION {{[type |-> "lain_broadcast", broadcast_id |-> id,
                message |-> Wrapped(kind, id)] : kind \in WrappedKinds} :
              id \in 1..MaxId}

RECURSIVE SumTo(_, _)
SumTo(f, n) == IF n = 0 THEN 0 ELSE f[n] + SumTo(f, n - 1)
Received == SumTo(rcvd, NumSockets) - Cardinality({s \in Sockets : rcvd[s] > 0})

\* ws.onmessage of a socket of the panel handles a message.
Receive(s, data) ==
  /\ s \in panelWs
  /\ cws[s] = "OPEN"
  /\ rcvd' = [rcvd EXCEPT ![s] = @ + 1]
  /\ lastData' = data
  /\ IF data.type = "sync" THEN onSync(data) ELSE onBroadcast(data)
  /\ UNCHANGED <<failures, serverVars, connVars>>

\* synthesizeSpeech without its try/catch: a failed fetch rejects the
\* worker's await and ends processMessageQueue before it releases its flag
TtsFetchSettle_throws ==
  /\ wpc = "fetch"
  /\ \/ /\ wpc' = "json"
        /\ UNCHANGED <<isSpeaking, failures>>
     \/ /\ wpc' = "idle"
        /\ UNCHANGED isSpeaking
        /\ failures' = failures + 1
  /\ UNCHANGED <<rcvd, lastData, messages, processedMessages, messageQueue,
                 isProcessingQueue, playing, enqLog, deqLog,
                 serverVars, connVars>>

\* synthesizeSpeech: await fetch(.../api/tts/synthesize) settles
TtsFetchSettle ==
  /\ wpc = "fetch"
  /\ \/ /\ wpc' = "json"                       \* response.ok
        /\ UNCHANGED <<isSpeaking, failures>>
     \/ /\ wpc' = "pause"                      \* rejected or !response.ok: catch
        /\ isSpeaking' = FALSE
        /\ failures' = failures + 1
  /\ UNCHANGED <<rcvd, lastData, messages, processedMessages, messageQueue,
                 isProcessingQueue, playing, enqLog, deqLog,
                 serverVars, connVars>>

\* synthesizeSpeech: await response.json() settles
TtsJsonSettle ==
  /\ wpc = "json"
  /\ \/ /\ wpc' = "play"                       \* audio decoded, audio.play() called
        /\ UNCHANGED <<isSpeaking, failures>>
     \/ /\ wpc' = "pause"                      \* no data.success or no data.audio
        /\ UNCHANGED isSpeaking
        /\ failures' = failures + 1
     \/ /\ wpc' = "pause"                      \* json() rejected or atob threw: catch
        /\ isSpeaking' = FALSE
        /\ failures' = failures + 1
  /\ UNCHANGED <<rcvd, lastData, messages, processedMessages, messageQueue,
                 isProcessingQueue, playing, enqLog, deqLog,
                 serverVars, connVars>>

\* synthesizeSpeech: await audio.play() settles; it resolves when playback
\* has started. The Audio element is identified by its line's dequeue index.
PlaySettle ==
  /\ wpc = "play"
  /\ wpc' = "pause"
  /\ \/ /\ playing' = playing \cup {Len(deqLog)}
        /\ UNCHANGED <<isSpeaking, failures>>
     \/ /\ isSpeaking' = FALSE                 \* rejected: catch
        /\ failures' = failures + 1
        /\ UNCHANGED playing
  /\ UNCHANGED <<rcvd, lastData, messages, processedMessages, messageQueue,
                 isProcessingQueue, enqLog, deqLog, serverVars, connVars>>

\* audio.onended / audio.onerror of a playing element
AudioStop(a) ==
  /\ a \in playing
  /\ playing' = playing \ {a}
  /\ isSpeaking' = FALSE
  /\ UNCHANGED <<rcvd, lastData, messages, processedMessages, messageQueue,
                 isProcessingQueue, wpc, failures, enqLog, deqLog,
                 serverVars, connVars>>

\* the worker as it would be if it ended after its pause without looking at
\* the queue again
PauseDone_exits ==
  /\ wpc = "pause"
  /\ isProcessingQueue' = FALSE
  /\ wpc' = "idle"
  /\ UNCHANGED <<messageQueue, deqLog, isSpeaking>>
  /\ UNCHANGED <<rcvd, lastData, messages, processedMessages, playing,
                 failures, enqLog, serverVars, connVars>>

\* processMessageQueue: the 500 ms pause is over; the while loop goes on.
PauseDone ==
  /\ wpc = "pause"
  /\ IF messageQueue # <<>>
     THEN /\ messageQueue' = shift(messageQueue).rest
          /\ deqLog' = Append(deqLog, shift(messageQueue).item)
          /\ isSpeaking' = TRUE
          /\ wpc' = "fetch"
          /\ UNCHANGED isProcessingQueue
     ELSE /\ isProcessingQueue' = FALSE
          /\ wpc' = "idle"
          /\ UNCHANGED <<messageQueue, deqLog, isSpeaking>>
  /\ UNCHANGED <<rcvd, lastData, messages, processedMessages, playing,
                 failures, enqLog, serverVars, connVars>>

\* ----------------------------------------------------------- specification
\* The broadcast server and its connections.
Next ==
  \/ TimerFire
  \/ \E i \in 1..Len(gens) : FetchSettle(i)
  \/ \E i \in 1..Len(gens) : JsonSettle(i)
  \/ \E i \in 1..Len(gens) : LPushSettle(i)
  \/ \E i \in 1..Len(gens) : LTrimSettle(i)
  \/ \E s \in Sockets : Connection(s)
  \/ \E s \in Sockets : ServerClosing(s)
  \/ \E s \in Sockets : Close(s)

Spec == Init /\ [][Next]_vars

\* The broadcast server with viewers that stay connected, send chat messages
\* and ask for the server's status.
NextViewers ==
  \/ TimerFire
  \/ \E i \in 1..Len(gens) : FetchSettle(i)
  \/ \E i \in 1..Len(gens) : JsonSettle(i)
  \/ \E i \in 1..Len(gens) : LPushSettle(i)
  \/ \E i \in 1..Len(gens) : LTrimSettle(i)
  \/ \E s \in Sockets : Connection(s)
  \/ \E s \in Sockets : ChatMessage(s)
  \/ StatusQuery

SpecViewers == Init /\ [][NextViewers]_vars

\* The scheduler alone, with generateAndBroadcast also called at arbitrary
\* moments, whatever the loop's timer does.
NextCalls ==
  \/ TimerFire
  \/ DirectCall
  \/ \E i \in 1..Len(gens) : FetchSettle(i)
  \/ \E i \in 1..Len(gens) : JsonSettle(i)
  \/ \E i \in 1..Len(gens) : LPushSettle(i)
  \/ \E i \in 1..Len(gens) : LTrimSettle(i)

SpecCalls == Init /\ [][NextCalls]_vars

\* The chat panel once mounted, and its playback queue; what its socket
\* receives is any sync message followed by any live broadcasts.
NextPanel ==
  \/ EffectRun
  \/ \E s \in Sockets : ClientOpen(s)
  \/ \E s \in Sockets : /\ rcvd[s] = 0
                        /\ \E data \in SyncInputs : Receive(s, data)
  \/ \E s \in Sockets : /\ rcvd[s] > 0
                        /\ Received < MaxMsgs
                        /\ \E data \in BroadcastInputs : Receive(s, data)
  \/ TtsFetchSettle
  \/ TtsJsonSettle
  \/ PlaySettle
  \/ \E a \in playing : AudioStop(a)
  \/ PauseDone

SpecPanel == Init /\ [][NextPanel]_vars

\* The ids of n broadcasts handled before the ones the model delivers: the n
\* clock values up to 0, in the order they were added.
OlderIds(n) == [k \in 1..n |-> k - n]

\* A panel that has been up for a while: its socket is open and has handled its
\* sync message, and n live broadcasts with blank text have gone through the
\* handler (their ids are recorded, nothing was displayed or queued), with n
\* at or just below the cap. rcvd counts the messages handled from here on,
\* the sync message included.
InitCap ==
  /\ clients = <<>>
  /\ readyState = [s \in Sockets |-> "NONE"]
  /\ currentMessage = Null
  /\ isBroadcasting = FALSE
  /\ lastBroadcastTime = 0
  /\ now = 1
  /\ timer = TRUE
  /\ gens = <<>>
  /\ sent = [s \in Sockets |-> <<>>]
  /\ skipped = FALSE
  /\ userMessages = 0
  /\ lastStatus = NoStatus
  /\ handlers = <<>>
  /\ cws = [s \in Sockets |-> IF s = 1 THEN "OPEN" ELSE "NONE"]
  /\ panelWs = {1}
  /\ wsRef = 1
  /\ effectWs = 1
  /\ mounted = TRUE
  /\ effectRuns = 1
  /\ rcvd = [s \in Sockets |-> IF s = 1 THEN 1 ELSE 0]
  /\ lastData = [type |-> "lain_broadcast", broadcast_id |-> 0,
                 message |-> Blank]
  /\ messages = <<>>
  /\ \E n \in (ProcessedCap - CapSlack)..ProcessedCap :
       processedMessages = OlderIds(n)
  /\ messageQueue = <<>>
  /\ isProcessingQueue = FALSE
  /\ wpc = "idle"
  /\ playing = {}
  /\ isSpeaking = FALSE
  /\ failures = 0
  /\ enqLog = <<>>
  /\ deqLog = <<>>

\* The panel's socket receives live broadcasts, and the worker plays them.
NextCap ==
  \/ \E s \in Sockets : /\ Received < MaxMsgs
                        /\ \E data \in BroadcastInputs : Receive(s, data)
  \/ TtsFetchSettle
  \/ TtsJsonSettle
  \/ PlaySettle
  \/ \E a \in playing : AudioStop(a)
  \/ PauseDone

SpecCap == InitCap /\ [][NextCap]_vars

\* The chat server of backend/websocket: clients connect, send chat messages
\* and go away.
NextWs ==
  \/ \E s \in Sockets : WsConnection(s)
  \/ \E s \in Sockets : WsChat(s)
  \/ \E k \in 1..Len(handlers) : WsFetchSettle(k)
  \/ \E k \in 1..Len(handlers) : WsJsonSettle(k)
  \/ \E k \in 1..Len(handlers) : WsLPushSettle(k)
  \/ \E k \in 1..Len(handlers) : WsLTrimSettle(k)
  \/ \E s \in Sockets : ServerClosing(s)
  \/ \E s \in Sockets : WsClose(s)

SpecWs == Init /\ [][NextWs]_vars

\* The chat server with a language-model call that returns and a body that is
\* read: the awaits of fetch and of response.json() settle.
LiveWs ==
  /\ SpecWs
  /\ WF_vars(\E k \in 1..Len(handlers) : WsFetchSettle(k))
  /\ WF_vars(\E k \in 1..Len(handlers) : WsJsonSettle(k))

\* The chat panel with live broadcasts whose text may be wrapped in a json
\* code block.
NextWrap ==
  \/ EffectRun
  \/ \E s \in Sockets : ClientOpen(s)
  \/ \E s \in Sockets : /\ rcvd[s] = 0
                        /\ \E data \in SyncInputs : Receive(s, data)
  \/ \E s \in Sockets : /\ rcvd[s] > 0
                        /\ Received < MaxWrapped
                        /\ \E data \in BroadcastInputs \cup WrappedInputs :
                             Receive(s, data)
  \/ TtsFetchSettle
  \/ TtsJsonSettle
  \/ PlaySettle
  \/ \E a \in playing : AudioStop(a)
  \/ PauseDone

SpecWrap == Init /\ [][NextWrap]_vars

\* The chat panel with its connection effect cleaned up and run again, and
\* with connections that drop.
NextMount ==
  \/ NextPanel
  \/ EffectCleanup
  \/ \E s \in Sockets : Drop(s)

SpecMount == Init /\ [][NextMount]_vars

\* The panel's connection effect alone: it is run, cleaned up and run again
\* at any moment (React StrictMode does so right after the mount), its
\* sockets open, receive their sync message, and drop.
NextStrict ==
  \/ EffectRun
  \/ EffectCleanup
  \/ \E s \in Sockets : ClientOpen(s)
  \/ \E s \in Sockets : /\ rcvd[s] = 0
                        /\ \E data \in SyncInputs : Receive(s, data)
  \/ \E s \in Sockets : Drop(s)

SpecStrict == Init /\ [][NextStrict]_vars

\* The server under the scheduling the runtime guarantees: a pending timer
\* fires, and response.json() and the redis calls settle. Nothing bounds the
\* fetch: the code passes it no signal and arms no timer beside it.
LiveSpec ==
  /\ Spec
  /\ WF_vars(TimerFire)
  /\ WF_vars(\E i \in 1..Len(gens) : JsonSettle(i))
  /\ WF_vars(\E i \in 1..Len(gens) : LPushSettle(i))
  /\ WF_vars(\E i \in 1..Len(gens) : LTrimSettle(i))

\* The server with an inference service that always answers and a history
\* store of which nothing is assumed: a pending timer fires and the awaits of
\* fetch and response.json() settle; the redis calls may stay pending (the
\* client queues commands while it has no connection).
LiveHistory ==
  /\ Spec
  /\ WF_vars(TimerFire)
  /\ WF_vars(\E i \in 1..Len(gens) : FetchSettle(i))
  /\ WF_vars(\E i \in 1..Len(gens) : JsonSettle(i))

\* The chat panel receiving live broadcasts that all carry a line to speak.
LineInputs == {data \in BroadcastInputs : data.message.k = "line"}

NextQueue ==
  \/ EffectRun
  \/ \E s \in Sockets : ClientOpen(s)
  \/ \E s \in Sockets : /\ rcvd[s] = 0
                        /\ \E data \in SyncInputs : Receive(s, data)
  \/ \E s \in Sockets : /\ rcvd[s] > 0
                        /\ Received < MaxLines
                        /\ \E data \in LineInputs : Receive(s, data)
  \/ TtsFetchSettle
  \/ TtsJsonSettle
  \/ PlaySettle
  \/ \E a \in playing : AudioStop(a)
  \/ PauseDone

SpecQueue == Init /\ [][NextQueue]_vars

\* The same with synthesis calls that return: the awaits of the TTS fetch, of
\* response.json() and of audio.play() settle, and the worker's 500 ms timer
\* fires.
LiveQueue ==
  /\ SpecQueue
  /\ WF_vars(TtsFetchSettle)
  /\ WF_vars(TtsJsonSettle)
  /\ WF_vars(PlaySettle)
  /\ WF_vars(PauseDone)

\* ------------------------------------------------------------------ claims
\* C1: in the playback queue at no time are two audio playbacks active at
\* once (the next line is not played before the prior line's audio has ended
\* or failed).
C1_OnePlaybackAtATime == Cardinality(playing) <= 1

\* C2: at most one generateAndBroadcast attempt (hence one inference call) is
\* in flight at any time, and while isBroadcasting is true no call starts one
\* or leaves one queued, whenever the calls come.
C2_AtMostOneInFlight ==
  /\ [](Len(gens) <= 1)
  /\ [][isBroadcasting => Len(gens') <= Len(gens)]_vars

\* C2 witness: a call came while an attempt was in flight and was skipped.
C2_Witness == skipped /\ Len(gens) = 1 /\ gens[1].pc = "fetch"

\* C3: a panel that has handled only its sync message and no live broadcast
\* has nothing queued, dequeued, synthesized or playing.
C3_SyncNotSpoken ==
  Received = 0 =>
    /\ enqLog = <<>>
    /\ messageQueue = <<>>
    /\ deqLog = <<>>
    /\ wpc = "idle"
    /\ ~isProcessingQueue
    /\ playing = {}

\* C3 witness: a sync message carrying a current message has been handled and
\* displayed, and nothing else has arrived.
C3_Witness ==
  /\ Received = 0
  /\ lastData.type = "sync"
  /\ lastData.current_message # Null
  /\ Len(messages) = 1

\* The live messages displayed for broadcast id
Displayed(msgs, id) ==
  Cardinality({k \in 1..Len(msgs) :
                 msgs[k].kind = "live" /\ msgs[k].broadcast_id = id})
\* The lines of broadcast id pushed to the queue
Enqueued(log, id) == Cardinality({k \in 1..Len(log) : log[k] = Line(id)})

\* A step in which onmessage handles a live broadcast
HandlesBroadcast == Received' = Received + 1
\* A step in which onmessage handles again the message it handled last
HandlesSameAgain == HandlesBroadcast /\ lastData' = lastData

C5_FanOutPastBroken ==
  [][currentMessage' # currentMessage =>
       \A s \in Sockets :
         (s \in SeqToSet(clients) /\ readyState[s] = "OPEN") =>
            sent'[s] = Append(sent[s], currentMessage')]_vars

\* C5 witness: socket 1 registered first and is registered still, but was not
\* OPEN when the current message was fanned out (it was not sent it); socket 2,
\* after it in the iteration order, was sent the message.
C5_Witness ==
  /\ clients = <<1, 2>>
  /\ readyState[1] = "CLOSING"
  /\ currentMessage # Null
  /\ sent[1][1].current_message # currentMessage
  /\ \A k \in 1..Len(sent[1]) : sent[1][k] # currentMessage
  /\ sent[2][Len(sent[2])] = currentMessage

\* C6: lines are dequeued in the order they were enqueued, none skipped and
\* none twice: the dequeued lines followed by the pending ones are the
\* enqueued lines.
C6_Fifo == enqLog = deqLog \o messageQueue

\* C6 witness: three different lines were enqueued, two of them waited in the
\* queue together, and all three have been dequeued.
C6_Witness ==
  /\ Len(deqLog) = 3
  /\ messageQueue = <<>>
  /\ Cardinality(SeqToSet(deqLog)) = 3
  /\ playing = {1, 2, 3}

\* C7: when no generation attempt is in progress isBroadcasting is false,
\* however the attempts before ended.
C7_FlagReleased == gens = <<>> => ~isBroadcasting

\* C7 witness: an attempt has ended with an error before publishing anything.
C7_Witness == gens = <<>> /\ now > 1 /\ currentMessage = Null

\* A step in which the inference call of an attempt fails: the fetch rejects,
\* or the service has answered with an HTTP error status.
InferenceFails ==
  \E i \in 1..Len(gens) :
    \/ gens[i].pc = "fetch" /\ Len(gens') < Len(gens)
    \/ gens[i].pc = "json" /\ ~gens[i].resp.ok /\ gens' # gens

\* C8: when the inference call fails nothing is published: currentMessage and
\* lastBroadcastTime keep their values and no broadcast is sent to any socket.
C8_NoPublishOnFailure ==
  [][InferenceFails =>
       /\ currentMessage' = currentMessage
       /\ lastBroadcastTime' = lastBroadcastTime
       /\ \A s \in Sockets :
            Len(sent'[s]) > Len(sent[s]) =>
               sent'[s][Len(sent'[s])].type = "sync"]_vars

\* C9: an attempt always ends: whenever isBroadcasting is true it becomes
\* false again, also when the inference service never responds.
C9_AttemptEnds == isBroadcasting ~> ~isBroadcasting

\* C10: a registered socket has been sent exactly one sync message, as the
\* first message sent to it; and a connection changes what was sent to the
\* connecting socket only.
C10_SyncFirstOnce ==
  /\ [](\A s \in SeqToSet(clients) :
          /\ Len(sent[s]) >= 1
          /\ sent[s][1].type = "sync"
          /\ \A k \in 2..Len(sent[s]) : sent[s][k].type = "lain_broadcast")
  /\ [][\A s \in Sockets :
          readyState[s] = "NONE" /\ readyState'[s] = "OPEN" =>
             /\ Len(sent'[s]) = 1
             /\ \A t \in Sockets \ {s} : sent'[t] = sent[t]]_vars

\* C10 witness: both sockets are registered, the second connected after the
\* first, and the first has been sent its sync and then a broadcast.
C10_Witness ==
  /\ clients = <<1, 2>>
  /\ Len(sent[1]) = 2
  /\ sent[1][1].type = "sync"
  /\ sent[1][2].type = "lain_broadcast"
  /\ Len(sent[2]) = 1
  /\ sent[2][1].current_message = sent[1][2]

\* The positions of the live broadcasts in what was sent to socket s
Lives(s) == {k \in 1..Len(sent[s]) : sent[s][k].type = "lain_broadcast"}

\* C11: each socket is sent the live broadcasts in the order they were
\* published: of two broadcasts sent to a socket the one sent first is the one
\* published first (broadcast_id is the clock value at publication).
C11_PublishOrder ==
  \A s \in Sockets : \A j, k \in Lives(s) :
    j < k => sent[s][j].broadcast_id < sent[s][k].broadcast_id

\* C11 witness: a socket has been sent two live broadcasts, and the second of
\* them is the current message.
C11_Witness ==
  \E s \in Sockets :
    /\ Cardinality(Lives(s)) = 2
    /\ sent[s][Len(sent[s])] = currentMessage
    /\ sent[s][Len(sent[s]) - 1].type = "lain_broadcast"

\* C12: a fan-out sends the message exactly once to each registered socket
\* that is OPEN and nothing to any other socket, and meeting a socket that is
\* not OPEN raises no error: the attempt goes on to its next step.
C12_ExactlyOnceToOpen ==
  [][currentMessage' # currentMessage =>
       /\ \A s \in Sockets :
            sent'[s] = IF s \in SeqToSet(clients) /\ readyState[s] = "OPEN"
                       THEN Append(sent[s], currentMessage')
                       ELSE sent[s]
       /\ Len(gens') = Len(gens)
       /\ \E i \in 1..Len(gens') : gens'[i].pc = "lpush"
       /\ isBroadcasting']_vars

\* C12 witness: the attempt has just fanned out the current message while
\* socket 2 was registered but not OPEN: socket 1 holds the message once,
\* socket 2 does not hold it.
C12_Witness ==
  /\ clients = <<1, 2>>
  /\ readyState[1] = "OPEN"
  /\ readyState[2] = "CLOSING"
  /\ gens # <<>> /\ gens[1].pc = "lpush"
  /\ Cardinality({k \in 1..Len(sent[1]) : sent[1][k] = currentMessage}) = 1
  /\ sent[2][1].current_message # currentMessage
  /\ \A k \in 1..Len(sent[2]) : sent[2][k] # currentMessage

C14_FailureDoesNotStall ==
  /\ [][failures' # failures =>
          /\ wpc' = "pause"
          /\ isProcessingQueue'
          /\ messageQueue' = messageQueue]_vars
  /\ [][wpc = "pause" /\ wpc' # wpc /\ messageQueue # <<>> =>
          /\ wpc' = "fetch"
          /\ isProcessingQueue'
          /\ deqLog' = Append(deqLog, Head(messageQueue))
          /\ messageQueue' = Tail(messageQueue)]_vars
  /\ [](wpc = "idle" => messageQueue = <<>>)

\* C14 witness: the first line failed, the second was dequeued after it and
\* its audio is playing.
C14_Witness ==
  /\ failures = 1
  /\ Len(deqLog) = 2
  /\ playing = {2}

\* C15: the set of processed ids never holds more than the cap; handling a
\* broadcast with a new id leaves a suffix of the old set followed by the new
\* id (the oldest ids are the ones dropped, the new id is kept), and drops
\* nothing unless the cap would be exceeded.
C15_ProcessedBounded ==
  /\ [](Len(processedMessages) <= ProcessedCap)
  /\ [][HandlesBroadcast
        /\ lastData'.broadcast_id \notin SeqToSet(processedMessages) =>
          LET added == Append(processedMessages, lastData'.broadcast_id)
              dropped == Len(added) - Len(processedMessages')
          IN /\ dropped >= 0
             /\ dropped < Len(added)
             /\ processedMessages' = SubSeq(added, dropped + 1, Len(added))
             /\ Len(added) <= ProcessedCap => dropped = 0]_vars

\* C15 witness: the set was at its cap when a new id arrived; the oldest ids
\* were evicted and the set ends with the id just processed.
C15_Witness ==
  /\ Len(processedMessages) = ProcessedKeep
  /\ processedMessages[1] = 1 - ProcessedKeep + 1
  /\ processedMessages[ProcessedKeep] = lastData.broadcast_id
  /\ lastData.broadcast_id > 0

\* C16: every published message has non-empty text: the current message, and
\* every live broadcast sent to a socket, holds a non-blank line.
C16_PublishedNonEmpty ==
  /\ currentMessage # Null => currentMessage.message.k = "line"
  /\ \A s \in Sockets : \A k \in Lives(s) : sent[s][k].message.k = "line"

\* A step in which an attempt publishes: its response.json() has resolved and
\* it goes on to its lPush.
Publishes ==
  \E i \in 1..Len(gens) :
    /\ gens[i].pc = "json"
    /\ Len(gens') = Len(gens)
    /\ gens'[i].pc = "lpush"

C18_AnsweredWhileGenerating ==
  /\ [][\A s \in Sockets :
          isBroadcasting /\ readyState[s] = "NONE" /\ readyState'[s] = "OPEN" =>
             /\ s \in SeqToSet(clients')
             /\ sent'[s] = <<[type |-> "sync",
                              current_message |-> currentMessage,
                              is_broadcasting |-> TRUE,
                              last_broadcast_time |-> lastBroadcastTime]>>
             /\ UNCHANGED <<isBroadcasting, gens, currentMessage>>]_vars
  /\ [][isBroadcasting /\ lastStatus' # lastStatus =>
          /\ lastStatus'.is_broadcasting
          /\ lastStatus'.current_message = currentMessage
          /\ lastStatus'.last_broadcast_time = lastBroadcastTime
          /\ lastStatus'.clients = Len(clients)
          /\ UNCHANGED <<isBroadcasting, gens, currentMessage>>]_vars

\* C18 witness: while the second generation waits for the inference service a
\* socket has connected and a status query has been answered; both were told
\* that a generation is in progress and were given the first message.
C18_Witness ==
  /\ isBroadcasting
  /\ gens # <<>> /\ gens[1].pc = "fetch"
  /\ currentMessage # Null
  /\ \E s \in SeqToSet(clients) :
       /\ Len(sent[s]) = 1
       /\ sent[s][1].is_broadcasting
       /\ sent[s][1].current_message = currentMessage
  /\ lastStatus.is_broadcasting
  /\ lastStatus.current_message = currentMessage
  /\ lastStatus.clients = Len(clients)

\* C20: once the close of a socket has been handled the socket is not in the
\* client set and the status query counts one client less; and a socket that
\* is not registered is sent nothing, whatever is published.
C20_ClosedUnregistered ==
  /\ [][\A s \in Sockets :
          readyState[s] = "CLOSING" /\ readyState'[s] = "NONE" =>
             /\ s \notin SeqToSet(clients')
             /\ currentStatus'.clients = currentStatus.clients - 1]_vars
  /\ [](\A s \in Sockets :
          readyState[s] = "NONE" => s \notin SeqToSet(clients))
  /\ [](currentStatus.clients
          = Cardinality({s \in Sockets : readyState[s] # "NONE"}))
  /\ [][\A s \in Sockets :
          s \notin SeqToSet(clients) /\ s \notin SeqToSet(clients') =>
             sent'[s] = sent[s]]_vars

\* C20 witness: socket 1 failed and its close was handled; after that a
\* message was published and sent to socket 2, the only one counted.
C20_Witness ==
  /\ clients = <<2>>
  /\ readyState[1] = "NONE"
  /\ sent[1] = <<>>
  /\ currentStatus.clients = 1
  /\ Len(sent[2]) = 2
  /\ sent[2][1].current_message = Null
  /\ sent[2][2] = currentMessage

\* The language-model call of chat message k has not settled yet
Pending(k) ==
  Len(handlers) >= k /\ handlers[k].pc \in {"fetch", "json"}

C21_OneWorker ==
  /\ [][isProcessingQueue /\ Len(enqLog') > Len(enqLog) =>
          /\ deqLog' = deqLog
          /\ wpc' = wpc
          /\ isProcessingQueue'
          /\ messageQueue' = Append(messageQueue, enqLog'[Len(enqLog')])]_vars
  /\ [](isProcessingQueue <=> wpc # "idle")
  /\ [][wpc = "pause" /\ wpc' # wpc /\ messageQueue = <<>> =>
          wpc' = "idle" /\ ~isProcessingQueue']_vars

\* C21 witness: two lines were enqueued while the worker was fetching the
\* first one; they wait in the queue.
C21_Witness ==
  /\ isProcessingQueue
  /\ wpc = "fetch"
  /\ Len(deqLog) = 1
  /\ Len(messageQueue) = 2

\* A step in which a generation attempt ends
AttemptEnds == Len(gens') < Len(gens)

\* C22: when an attempt of the loop ends, however it ends, no timer was
\* pending and one is pending afterwards; and the attempt has released the
\* flag, so that the tick of this timer generates again.
C22_NextTickScheduled ==
  [][AttemptEnds => ~timer /\ timer' /\ ~isBroadcasting' /\ gens' = <<>>]_vars

\* C22 witness: the first attempt failed before it published anything, the
\* timer scheduled after it has fired, and the second attempt is under way.
C22_Witness ==
  /\ currentMessage = Null
  /\ now = 2
  /\ ~timer
  /\ Len(gens) = 1 /\ gens[1].pc = "fetch"

\* C23: isSpeaking is true only while a line is being synthesized or played:
\* when the worker is at its pause or idle and no audio is playing, the flag
\* is false.
C23_SpeakingReturnsToIdle ==
  isSpeaking => (wpc \in {"fetch", "json", "play"} \/ playing # {})

\* C24: the history append is not part of delivery: a message is fanned out
\* before its append is started, and whatever becomes of the append the loop
\* goes on: an attempt that waits for the history store is followed by a
\* pending timer for the next tick.
C24_HistoryNotInDelivery ==
  /\ [][Publishes =>
          \A s \in Sockets :
            (s \in SeqToSet(clients) /\ readyState[s] = "OPEN") =>
               sent'[s] = Append(sent[s], currentMessage')]_vars
  /\ (\E i \in 1..Len(gens) : gens[i].pc \in {"lpush", "ltrim"}) ~> timer

\* C25: currentMessage is empty until it is first set, is changed only by a
\* generation attempt whose inference call has succeeded, and is never made
\* empty again; every other step leaves it as it is.
C25_CurrentOnlyByScheduler ==
  /\ [](now = 1 => currentMessage = Null)
  /\ [][currentMessage' # currentMessage =>
          /\ currentMessage' # Null
          /\ \E i \in 1..Len(gens) :
               /\ gens[i].pc = "json"
               /\ gens[i].resp.ok
               /\ Len(gens') = Len(gens)
               /\ gens'[i].pc = "lpush"]_vars

\* The sockets of the panel that are connecting or open
LiveSockets == {s \in panelWs : cws[s] \in {"CONNECTING", "OPEN"}}

\* C26: the panel has at most one live WebSocket at a time, also when its
\* effect is run, cleaned up and run again before the first socket has opened;
\* and no two of its sockets have both handled a sync message while live.
C26_OneLiveSocket ==
  /\ Cardinality(LiveSockets) <= 1
  /\ Cardinality({s \in LiveSockets : rcvd[s] > 0}) <= 1

\* C27: a live broadcast whose text, once a json code block in it has been
\* unwrapped, is missing, empty or whitespace-only is neither displayed nor
\* enqueued.
C27_BlankNotShown ==
  [][HandlesBroadcast
     /\ lastData'.message.k \in {"undef", "empty", "blank",
                                 "jsonblank", "jsonnotext"} =>
       UNCHANGED <<messages, enqLog, messageQueue, deqLog, wpc>>]_vars

\* C27 witness: the one live broadcast handled so far held a json code block
\* whose text was whitespace only; its id is recorded and nothing is shown.
C27_Witness ==
  /\ Received = 1
  /\ lastData.type = "lain_broadcast"
  /\ lastData.message.k = "jsonblank"
  /\ processedMessages = <<lastData.broadcast_id>>
  /\ Len(messages) <= 1
  /\ \A k \in 1..Len(messages) : messages[k].kind = "sync"
  /\ enqLog = <<>>

\* C28: no wake-up is lost: whenever a handler has returned with lines
\* waiting in the queue a worker holds the flag and is running; hence the
\* n-th line enqueued is eventually the n-th line dequeued.
C28_NoLostWakeUp ==
  /\ [](messageQueue # <<>> => isProcessingQueue /\ wpc # "idle")
  /\ \A n \in 1..MaxLines :
       (Len(enqLog) >= n) ~> (Len(deqLog) >= n /\ deqLog[n] = enqLog[n])

\* C28 witness: two lines were enqueued and both have been dequeued, in their
\* order, though the synthesis of both failed; the worker has ended.
C28_Witness ==
  /\ Len(enqLog) = 2
  /\ failures = 2
  /\ deqLog = enqLog
  /\ wpc = "idle"
  /\ ~isProcessingQueue

\* C29: at every moment either a timer of the loop is pending and no
\* generation attempt is in flight, or no timer is pending and exactly one
\* attempt is in flight; a timer is armed only when none is pending; and no
\* call of generateAndBroadcast has taken the 'already broadcasting' branch.
C29_TimerXorGeneration ==
  /\ [](\/ timer /\ gens = <<>> /\ ~isBroadcasting
        \/ ~timer /\ Len(gens) = 1 /\ isBroadcasting)
  /\ [](~skipped)
  /\ [][timer' /\ timer => gens' = <<>> /\ gens = <<>>]_vars

\* C29 witness: the second attempt of the loop is in flight, its timer
\* consumed, after the first attempt published and armed that timer.
C29_Witness ==
  /\ ~timer
  /\ ~skipped
  /\ currentMessage # Null
  /\ Len(gens) = 1 /\ gens[1].pc = "json"

\* C30: no socket is sent the same broadcast_id in its sync message and in a
\* live broadcast. A publication is fanned out only to sockets registered
\* before it, each of which gets it once more at the end of what it was sent;
\* a socket connecting later is sent nothing but a sync message, which
\* carries the message that is current at that time.
C30_SyncAndLiveDisjoint ==
  /\ [](\A s \in Sockets : \A k \in Lives(s) :
          /\ sent[s][1].type = "sync"
          /\ sent[s][1].current_message # Null =>
               sent[s][1].current_message.broadcast_id # sent[s][k].broadcast_id)
  /\ [][Publishes =>
          \A s \in Sockets :
            IF s \in SeqToSet(clients) /\ readyState[s] = "OPEN"
            THEN sent'[s] = Append(sent[s], currentMessage')
            ELSE sent'[s] = sent[s]]_vars
  /\ [][\A s \in Sockets :
          readyState[s] = "NONE" /\ readyState'[s] = "OPEN" =>
             /\ Lives(s)' = {}
             /\ sent'[s][1].current_message = currentMessage']_vars

\* C30 witness: socket 1 connected after the first publication and socket 2
\* after the second: socket 1 was sent the first message in its sync and the
\* second one live, socket 2 the second one in its sync only.
C30_Witness ==
  /\ clients = <<1, 2>>
  /\ Len(sent[1]) = 2
  /\ sent[1][1].current_message # Null
  /\ sent[1][2] = currentMessage
  /\ sent[1][1].current_message.broadcast_id < currentMessage.broadcast_id
  /\ sent[2] = <<[type |-> "sync",
                  current_message |-> currentMessage,
                  is_broadcasting |-> isBroadcasting,
                  last_broadcast_time |-> lastBroadcastTime]>>

====
